---- MODULE Spec2Model ----
(***************************************************************************)
(* Deep Work Timer (src/app.py): the stopwatch/timer session controller,   *)
(* the category store with its JSON file and deletion backups, the         *)
(* settings file, and the statistics aggregation.                          *)
(*                                                                         *)
(* Units.  Seconds are integers.  An entry's "time" (minutes, a float in   *)
(* the code) is held in thousandths of a minute, so that round(x, 2)       *)
(* yields a multiple of 10 and an unrounded manual value such as 1.234     *)
(* stays representable.  A timestamp is held as its calendar day number;   *)
(* Malformed stands for a "date" string datetime.fromisoformat rejects.    *)
(***************************************************************************)
EXTENDS Integers, Sequences, FiniteSets, TLC

\* ---------------------------------------------------------------- bounds
\* Ticks delivered per session (since the accumulator was last reset) in Spec.
MaxTicks == 2
\* Ticks delivered per session in TimerSpec: enough for the shortest timer.
MaxCountdown == 60
\* Total number of entries the store may hold.
MaxEntries == 2
\* Days the wall clock may advance during a run.
MaxDays == 1
\* Backup files written during a run.
MaxBackups == 1

\* ------------------------------------------------------ program constants
\* self.timer_duration = 90 * 60 ; settings.get("timer_minutes", 90)
DefaultMinutes == 90
\* seconds per minute: "* 60", "// 60", "/ 60"
SecondsPerMinute == 60
\* week_ago = today - timedelta(days=7)
WeekDays == 7

\* The day the application is started on.
StartDay == 10
\* A "date" string that datetime.fromisoformat cannot parse.
Malformed == -1

\* Category names the user may type; Typo is never added as a category.
Names == {"a", "b"}
Typo == "zz"

VARIABLES
    is_timer_mode,    \* self.is_timer_mode
    timer_duration,   \* self.timer_duration (seconds)
    time_remaining,   \* self.time_remaining (seconds)
    time_elapsed,     \* self.time_elapsed (seconds)
    running,          \* self.running
    timer_active,     \* self.timer (rumps.Timer) is started
    start_at_startup, \* self.start_at_startup
    title,            \* self.title, the menu-bar display
    data,             \* self.data["categories"]: insertion-ordered dict
    settings_file,    \* settings.json
    data_file,        \* data.json
    backups,          \* the files under backup/
    now,              \* the wall clock's calendar day
    report,           \* the totals the last statistics alert showed
    ticks,            \* ghost: ticks delivered since the accumulator was reset
    last              \* ghost: the last handler that ran, and how it ended

vars == <<is_timer_mode, timer_duration, time_remaining, time_elapsed, running,
          timer_active, start_at_startup, title, data, settings_file,
          data_file, backups, now, report, ticks, last>>

session == <<is_timer_mode, timer_duration, time_remaining, time_elapsed,
             running, timer_active, title>>

\* ---------------------------------------------------------- pure helpers

\* seconds / 60 cut off after two decimals instead of rounded.
Round2Truncating(seconds) == 10 * ((100 * seconds) \div 60)

\* round(seconds / 60, 2), in thousandths of a minute.  100*s/60 = 5s/3 has
\* fractional part 0, 1/3 or 2/3, so no tie ever needs breaking.
Round2(seconds) == 10 * ((10 * seconds + 3) \div 6)

\* "{n}" where the code has "{n:02d}".
Pad2Unpadded(n) == ToString(n)

Pad2(n) == IF n < 10 THEN "0" \o ToString(n) ELSE ToString(n)

\* format_time: H:MM:SS, hours unpadded.
format_time(seconds) ==
    LET hrs == seconds \div 3600
        mins == (seconds % 3600) \div 60
        secs == seconds % 60
    IN  ToString(hrs) \o ":" \o Pad2(mins) \o ":" \o Pad2(secs)

\* The literal the handlers assign on reset.
ZeroTitle == "0:00:00"

\* An ordered dict: keys in insertion order, val the mapping.
EmptyDict == [keys |-> <<>>, val |-> [n \in {} |-> <<>>]]

KeySet(d) == {d.keys[i] : i \in 1..Len(d.keys)}

\* name in self.data["categories"]
Has(d, name) == name \in KeySet(d)

\* self.data["categories"][name] = []   (name is not yet a key)
DictInsert(d, name) ==
    [keys |-> Append(d.keys, name),
     val |-> [n \in KeySet(d) \cup {name} |-> IF n = name THEN <<>> ELSE d.val[n]]]

\* A deletion that also empties the lists of the categories it keeps.
DictDeleteClearing(d, name) ==
    [keys |-> SelectSeq(d.keys, LAMBDA k : k # name),
     val |-> [n \in KeySet(d) \ {name} |-> <<>>]]

\* del self.data["categories"][name]
DictDelete(d, name) ==
    [keys |-> SelectSeq(d.keys, LAMBDA k : k # name),
     val |-> [n \in KeySet(d) \ {name} |-> d.val[n]]]

\* insert(0, entry) where the code has append(entry).
DictPrepend(d, name, entry) ==
    [d EXCEPT !.val[name] = <<entry>> \o @]

\* self.data["categories"][name].append(entry)
DictAppend(d, name, entry) ==
    [d EXCEPT !.val[name] = Append(@, entry)]

RECURSIVE SumLen(_, _)
SumLen(d, i) == IF i = 0 THEN 0 ELSE Len(d.val[d.keys[i]]) + SumLen(d, i - 1)

\* Number of entries in the whole store.
TotalEntries(d) == SumLen(d, Len(d.keys))

\* json.dump(self.data): the object's members in the dict's order.
Dump(d) == [i \in 1..Len(d.keys) |-> [name |-> d.keys[i], entries |-> d.val[d.keys[i]]]]

\* A load that reads each category's entries last to first.
RECURSIVE LoadEntriesReversed(_)
LoadEntriesReversed(members) ==
    IF members = <<>> THEN EmptyDict
    ELSE LET n == Len(members)
             head == LoadEntriesReversed(SubSeq(members, 1, n - 1))
             m == members[n]
             rev == [i \in 1..Len(m.entries) |-> m.entries[Len(m.entries) + 1 - i]]
         IN  IF Has(head, m.name)
             THEN [head EXCEPT !.val[m.name] = rev]
             ELSE [keys |-> Append(head.keys, m.name),
                   val |-> [k \in KeySet(head) \cup {m.name} |->
                              IF k = m.name THEN rev ELSE head.val[k]]]

\* json.load: members in file order; a repeated key keeps its first position
\* and takes its last value.
RECURSIVE Load(_)
Load(members) ==
    IF members = <<>> THEN EmptyDict
    ELSE LET n == Len(members)
             head == Load(SubSeq(members, 1, n - 1))
             m == members[n]
         IN  IF Has(head, m.name)
             THEN [head EXCEPT !.val[m.name] = m.entries]
             ELSE [keys |-> Append(head.keys, m.name),
                   val |-> [k \in KeySet(head) \cup {m.name} |->
                              IF k = m.name THEN m.entries ELSE head.val[k]]]

\* A file: whether it exists, and its content.
NoDataFile == [exists |-> FALSE, members |-> <<>>]
DataFile(members) == [exists |-> TRUE, members |-> members]

\* settings.json: {"start_at_startup": ..., "timer_minutes": ...}
SettingsFile(startup, minutes) ==
    [exists |-> TRUE, start_at_startup |-> startup, timer_minutes |-> minutes]
NoSettingsFile == [exists |-> FALSE, start_at_startup |-> FALSE, timer_minutes |-> 0]

\* The return value of a dialog: ok = FALSE is the Cancel button (None).
Cancel == [ok |-> FALSE, text |-> ""]
Ok(text) == [ok |-> TRUE, text |-> text]

\* "if not name": None or the empty string.
Falsy(r) == ~r.ok \/ r.text = ""

Entry(date, time) == [date |-> date, time |-> time]

\* ------------------------------------------------------------- statistics

\* Totals that show the week's sum as the lifetime sum.
TotalsLifetimeOfWeek(daily, weekly, lifetime) ==
    [daily |-> daily, weekly |-> weekly, lifetime |-> weekly]

Totals(daily, weekly, lifetime) == [daily |-> daily, weekly |-> weekly, lifetime |-> lifetime]

\* A loop that adds an entry to the lifetime sum before it parses the date.
RECURSIVE CategoryTotalsCountingMalformed(_, _)
CategoryTotalsCountingMalformed(entries, today) ==
    IF entries = <<>> THEN Totals(0, 0, 0)
    ELSE LET n == Len(entries)
             acc == CategoryTotalsCountingMalformed(SubSeq(entries, 1, n - 1), today)
             entry == entries[n]
             week_ago == today - WeekDays
         IN  IF entry.date = Malformed
             THEN Totals(acc.daily, acc.weekly, acc.lifetime + entry.time)
             ELSE Totals(acc.daily + (IF entry.date = today THEN entry.time ELSE 0),
                         acc.weekly + (IF week_ago <= entry.date /\ entry.date <= today
                                       THEN entry.time ELSE 0),
                         acc.lifetime + entry.time)

\* The loop over one category's entries: an entry whose date does not parse
\* is skipped by "continue", before anything is added.
RECURSIVE CategoryTotals(_, _)
CategoryTotals(entries, today) ==
    IF entries = <<>> THEN Totals(0, 0, 0)
    ELSE LET n == Len(entries)
             acc == CategoryTotals(SubSeq(entries, 1, n - 1), today)
             entry == entries[n]
             week_ago == today - WeekDays
         IN  IF entry.date = Malformed THEN acc
             ELSE Totals(acc.daily + (IF entry.date = today THEN entry.time ELSE 0),
                         acc.weekly + (IF week_ago <= entry.date /\ entry.date <= today
                                       THEN entry.time ELSE 0),
                         acc.lifetime + entry.time)

\* Overall totals that are those of the last category alone.
OverallTotalsOfLast(d, i, today) ==
    IF i = 0 THEN Totals(0, 0, 0) ELSE CategoryTotals(d.val[d.keys[i]], today)

\* The loop over the categories: the overall totals add up the categories'.
RECURSIVE OverallTotals(_, _, _)
OverallTotals(d, i, today) ==
    IF i = 0 THEN Totals(0, 0, 0)
    ELSE LET acc == OverallTotals(d, i - 1, today)
             c == CategoryTotals(d.val[d.keys[i]], today)
         IN  Totals(acc.daily + c.daily, acc.weekly + c.weekly, acc.lifetime + c.lifetime)

\* What the statistics alert shows: the day it was computed for, the overall
\* totals and each category's.
NoReport == [shown |-> FALSE, today |-> 0, overall |-> Totals(0, 0, 0),
             per_category |-> [n \in {} |-> Totals(0, 0, 0)]]

\* Statistics computed for the day before the one they are shown on.
StatisticsOfYesterday(d, today) ==
    [shown |-> TRUE, today |-> today,
     overall |-> OverallTotals(d, Len(d.keys), today - 1),
     per_category |-> [n \in KeySet(d) |-> CategoryTotals(d.val[n], today - 1)]]

Statistics(d, today) ==
    [shown |-> TRUE, today |-> today,
     overall |-> OverallTotals(d, Len(d.keys), today),
     per_category |-> [n \in KeySet(d) |-> CategoryTotals(d.val[n], today)]]

\* ------------------------------------------------------------ user inputs

\* What the category combo box can return: an offered name, a typed name
\* that is no category, the empty string, or Cancel.
CategoryResponses == {Ok(n) : n \in Names \cup {Typo, ""}} \cup {Cancel}

\* What the "Add Category" text field can return.
NameResponses == {Ok(n) : n \in Names \cup {""}} \cup {Cancel}

\* The minutes the user types as a timer duration.
TypedMinutes == {-1, 0, 1, 2}

\* int(new_timer_str): the integer texts are ToString of their value; any
\* other text raises ValueError.
IntTexts == {ToString(n) : n \in TypedMinutes}
IsIntText(s) == s \in IntTexts
ParseInt(s) == CHOOSE n \in TypedMinutes : ToString(n) = s

\* What the "Change Timer Duration" text field can return.
DurationResponses == {Ok(s) : s \in IntTexts \cup {"abc", "1.5", ""}} \cup {Cancel}

\* float(time_str), in thousandths of a minute; ok = FALSE is ValueError.
ParseFloat(s) ==
    CASE s = "30"    -> [ok |-> TRUE, val |-> 30000]
      [] s = "1.234" -> [ok |-> TRUE, val |-> 1234]
      [] s = "0"     -> [ok |-> TRUE, val |-> 0]
      [] s = "-5"    -> [ok |-> TRUE, val |-> -5000]
      [] OTHER       -> [ok |-> FALSE, val |-> 0]

DateTime(ok, day, time_str) == [ok |-> ok, day |-> day, time_str |-> time_str]

\* The manual-entry dialog: the button, the date field (a day, or Malformed
\* when strptime rejects it) and the minutes field.
DateTimeInputs ==
    {DateTime(FALSE, StartDay, "")}
    \cup {DateTime(TRUE, StartDay - WeekDays, "1.234")}
    \cup {DateTime(TRUE, Malformed, "30")}
    \cup {DateTime(TRUE, StartDay, t) : t \in {"0", "-5", "abc"}}

\* An entry an earlier run saved: half an hour, a week before the start.
OldEntry == Entry(StartDay - WeekDays, 30000)

\* (None, None), and which alert (if any) preceded it.
NoInput(why) == [ok |-> FALSE, day |-> 0, minutes |-> 0, why |-> why]

\* The dialog with "time_minutes < 0" as its check: zero minutes pass.
get_date_time_input_zero_ok(dt) ==
    IF ~dt.ok THEN NoInput("cancelled")
    ELSE IF dt.day = Malformed THEN NoInput("invalid_date")
    ELSE LET f == ParseFloat(dt.time_str)
         IN  IF ~f.ok THEN NoInput("invalid_minutes")
             ELSE IF f.val < 0 THEN NoInput("nonpositive_minutes")
             ELSE [ok |-> TRUE, day |-> dt.day, minutes |-> f.val, why |-> "ok"]

\* get_date_time_input: (date_value, time_minutes), or (None, None).
get_date_time_input(dt) ==
    IF ~dt.ok THEN NoInput("cancelled")
    ELSE IF dt.day = Malformed THEN NoInput("invalid_date")
    ELSE LET f == ParseFloat(dt.time_str)
         IN  IF ~f.ok THEN NoInput("invalid_minutes")
             ELSE IF f.val <= 0 THEN NoInput("nonpositive_minutes")
             ELSE [ok |-> TRUE, day |-> dt.day, minutes |-> f.val, why |-> "ok"]

\* ------------------------------------------------------------------ files

\* settings.json as an earlier run left it: absent, or written by
\* save_settings after the user chose a one-minute timer.
SavedSettings == {NoSettingsFile, SettingsFile(FALSE, 1)}

\* data.json as an earlier run left it: absent, or a store.
SavedData ==
    {NoDataFile,
     DataFile(<<[name |-> "a", entries |-> <<OldEntry>>],
                [name |-> "b", entries |-> <<>>]>>)}

\* save_settings
save_settings(startup, duration) ==
    settings_file' = SettingsFile(startup, duration \div SecondsPerMinute)

\* A save that never reaches the disk.
save_data_skipped(d) == UNCHANGED data_file

\* save_data
save_data(d) == data_file' = DataFile(Dump(d))

\* ------------------------------------------------------------------- init

\* __init__: the fields are set, then load_settings and load_data run.
\* time_remaining is taken from the default duration before load_settings
\* replaces timer_duration.
Startup(sf, df) ==
        /\ is_timer_mode = TRUE
        /\ time_remaining = DefaultMinutes * SecondsPerMinute
        /\ timer_duration =
               IF sf.exists
               THEN sf.timer_minutes * SecondsPerMinute
               ELSE DefaultMinutes * SecondsPerMinute
        /\ time_elapsed = 0
        /\ running = FALSE
        /\ timer_active = FALSE
        /\ start_at_startup = (sf.exists /\ sf.start_at_startup)
        /\ title = ZeroTitle
        /\ settings_file = sf
        /\ data_file = IF df.exists THEN df ELSE DataFile(Dump(EmptyDict))
        /\ data = Load(data_file.members)
        /\ backups = {}
        /\ now = StartDay
        /\ report = NoReport
        /\ ticks = 0
        /\ last = [op |-> "init", outcome |-> "ok"]

Init == \E sf \in SavedSettings, df \in SavedData : Startup(sf, df)

\* The dates of the entries of a data file the statistics are computed from:
\* around both ends of the week before the start, a later day, and a date
\* that does not parse.
StatsDates ==
    {StartDay - WeekDays - 1, StartDay - WeekDays, StartDay - WeekDays + 1,
     StartDay - 1, StartDay, StartDay + 1, Malformed}

\* Entries of 30 minutes on each of those dates, one of 1.234 minutes, and one
\* of the negative minutes a commit can store.
StatsEntries ==
    {Entry(d, 30000) : d \in StatsDates}
        \cup {Entry(StartDay, 1234), Entry(StartDay + 1, -89000)}

\* Data files with category "a" holding up to two such entries and category
\* "b" holding none or one.
StatsData ==
    {DataFile(<<[name |-> "a", entries |-> ea], [name |-> "b", entries |-> eb]>>) :
        ea \in {<<>>} \cup {<<e>> : e \in StatsEntries}
                 \cup {<<e1, e2>> : e1 \in StatsEntries, e2 \in StatsEntries},
        eb \in {<<>>, <<Entry(StartDay, 30000)>>}}
    \cup {NoDataFile}

StatsInit == \E df \in StatsData : Startup(NoSettingsFile, df)

\* A first run: no data file yet, so load_data creates an empty store.
EmptyInit == \E sf \in SavedSettings : Startup(sf, NoDataFile)

\* A start without saved settings.
StoreInit == \E df \in SavedData : Startup(NoSettingsFile, df)

Did(op, outcome) == last' = [op |-> op, outcome |-> outcome]

\* ------------------------------------------------------- saving a session

\* A save that prompts without looking whether there is a category.
SaveOutcomeUnchecked(resp) ==
    IF Falsy(resp) THEN "cancelled"
    ELSE IF Has(data, resp.text) THEN "committed"
    ELSE "raised"

\* How a save ends: the alert, a dismissed or empty prompt, the append, or
\* the KeyError of an unchecked typed name.
SaveOutcome(resp) ==
    IF data.keys = <<>> THEN "no_categories"
    ELSE IF Falsy(resp) THEN "cancelled"
    ELSE IF Has(data, resp.text) THEN "committed"
    ELSE "raised"

\* The store bound: a save that would append needs room.
HasRoom(resp) == SaveOutcome(resp) = "committed" => TotalEntries(data) < MaxEntries

\* A save that leaves the last second out of the session.
save_timer_to_json_short(elapsed_seconds, resp) ==
    IF SaveOutcome(resp) = "committed"
    THEN /\ data' = DictAppend(data, resp.text, Entry(now, Round2(elapsed_seconds - 1)))
         /\ save_data(data')
    ELSE UNCHANGED <<data, data_file>>

\* A save that files a dismissed prompt under the first category.
save_timer_to_json_on_cancel(elapsed_seconds, resp) ==
    IF SaveOutcome(resp) = "committed"
    THEN /\ data' = DictAppend(data, resp.text, Entry(now, Round2(elapsed_seconds)))
         /\ save_data(data')
    ELSE IF SaveOutcome(resp) = "cancelled"
    THEN /\ data' = DictAppend(data, data.keys[1], Entry(now, Round2(elapsed_seconds)))
         /\ save_data(data')
    ELSE UNCHANGED <<data, data_file>>

\* save_timer_to_json(elapsed_seconds)
save_timer_to_json(elapsed_seconds, resp) ==
    IF SaveOutcome(resp) = "committed"
    THEN /\ data' = DictAppend(data, resp.text, Entry(now, Round2(elapsed_seconds)))
         /\ save_data(data')
    ELSE UNCHANGED <<data, data_file>>

\* A stopwatch save that returns when nothing was counted.
save_stopwatch_to_json_skipping_zero(resp) ==
    IF SaveOutcome(resp) = "committed" /\ time_elapsed > 0
    THEN /\ data' = DictAppend(data, resp.text, Entry(now, Round2(time_elapsed)))
         /\ save_data(data')
    ELSE UNCHANGED <<data, data_file>>

\* A stopwatch save that files a typed unknown name under a new category.
save_stopwatch_to_json_creating(resp) ==
    IF SaveOutcome(resp) = "committed"
    THEN /\ data' = DictAppend(data, resp.text, Entry(now, Round2(time_elapsed)))
         /\ save_data(data')
    ELSE IF SaveOutcome(resp) = "raised"
    THEN /\ data' = DictAppend(DictInsert(data, resp.text), resp.text,
                               Entry(now, Round2(time_elapsed)))
         /\ save_data(data')
    ELSE UNCHANGED <<data, data_file>>

\* save_stopwatch_to_json
save_stopwatch_to_json(resp) ==
    IF SaveOutcome(resp) = "committed"
    THEN /\ data' = DictAppend(data, resp.text, Entry(now, Round2(time_elapsed)))
         /\ save_data(data')
    ELSE UNCHANGED <<data, data_file>>

\* ---------------------------------------------------------------- session

\* A start that also re-arms the accumulator of the mode.
start_resume_rearming ==
    /\ IF ~running
       THEN /\ running' = TRUE
            /\ timer_active' = TRUE
            /\ time_remaining' = timer_duration
            /\ time_elapsed' = 0
            /\ Did("start_resume", "started")
       ELSE /\ UNCHANGED <<running, timer_active, time_remaining, time_elapsed>>
            /\ Did("start_resume", "noop")
    /\ UNCHANGED <<is_timer_mode, timer_duration,
                   start_at_startup, title, data, settings_file, data_file,
                   backups, now, report, ticks>>

\* start_resume
start_resume ==
    /\ IF ~running
       THEN /\ running' = TRUE
            /\ timer_active' = TRUE
            /\ Did("start_resume", "started")
       ELSE /\ UNCHANGED <<running, timer_active>>
            /\ Did("start_resume", "noop")
    /\ UNCHANGED <<is_timer_mode, timer_duration, time_remaining, time_elapsed,
                   start_at_startup, title, data, settings_file, data_file,
                   backups, now, report, ticks>>

\* A pause that clears the flag and leaves the rumps.Timer started.
pause_flag_only ==
    /\ IF running
       THEN /\ UNCHANGED timer_active
            /\ running' = FALSE
            /\ Did("pause", "paused")
       ELSE /\ UNCHANGED <<running, timer_active>>
            /\ Did("pause", "noop")
    /\ UNCHANGED <<is_timer_mode, timer_duration, time_remaining, time_elapsed,
                   start_at_startup, title, data, settings_file, data_file,
                   backups, now, report, ticks>>

\* pause
pause ==
    /\ IF running
       THEN /\ timer_active' = FALSE
            /\ running' = FALSE
            /\ Did("pause", "paused")
       ELSE /\ UNCHANGED <<running, timer_active>>
            /\ Did("pause", "noop")
    /\ UNCHANGED <<is_timer_mode, timer_duration, time_remaining, time_elapsed,
                   start_at_startup, title, data, settings_file, data_file,
                   backups, now, report, ticks>>

\* update_time: the rumps.Timer callback, one call per second while the timer
\* is started.  limit bounds the ticks of one session; resp is what the
\* category prompt returns if the countdown ends on this tick.
update_time(limit, resp) ==
    /\ timer_active
    /\ ticks < limit
    /\ IF is_timer_mode
       THEN IF time_remaining - 1 <= 0
            THEN /\ HasRoom(resp)
                 /\ timer_active' = FALSE
                 /\ running' = FALSE
                 /\ title' = ZeroTitle
                 /\ save_timer_to_json(timer_duration - 0, resp)
                 /\ IF SaveOutcome(resp) = "raised"
                    THEN /\ time_remaining' = 0
                         /\ ticks' = ticks + 1
                    ELSE /\ time_remaining' = timer_duration
                         /\ ticks' = 0
                 /\ Did("update_time", SaveOutcome(resp))
                 /\ UNCHANGED time_elapsed
            ELSE /\ time_remaining' = time_remaining - 1
                 /\ title' = format_time(time_remaining')
                 /\ ticks' = ticks + 1
                 /\ Did("update_time", "tick")
                 /\ UNCHANGED <<time_elapsed, running, timer_active, data, data_file>>
       ELSE /\ time_elapsed' = time_elapsed + 1
            /\ title' = format_time(time_elapsed')
            /\ ticks' = ticks + 1
            /\ Did("update_time", "tick")
            /\ UNCHANGED <<time_remaining, running, timer_active, data, data_file>>
    /\ UNCHANGED <<is_timer_mode, timer_duration, start_at_startup,
                   settings_file, backups, now, report>>

\* A reset that returns as soon as the prompt is dismissed.
reset_and_save_early_return(resp) ==
    /\ HasRoom(resp)
    /\ timer_active' = FALSE
    /\ running' = FALSE
    /\ IF is_timer_mode
       THEN /\ save_timer_to_json(timer_duration - time_remaining, resp)
            /\ IF SaveOutcome(resp) \in {"raised", "cancelled"}
               THEN UNCHANGED <<time_remaining, title, ticks>>
               ELSE /\ time_remaining' = timer_duration
                    /\ title' = ZeroTitle
                    /\ ticks' = 0
            /\ UNCHANGED time_elapsed
       ELSE /\ save_stopwatch_to_json(resp)
            /\ IF SaveOutcome(resp) \in {"raised", "cancelled"}
               THEN UNCHANGED <<time_elapsed, title, ticks>>
               ELSE /\ time_elapsed' = 0
                    /\ title' = ZeroTitle
                    /\ ticks' = 0
            /\ UNCHANGED time_remaining
    /\ Did("reset_and_save", SaveOutcome(resp))
    /\ UNCHANGED <<is_timer_mode, timer_duration, start_at_startup,
                   settings_file, backups, now, report>>

\* reset_and_save: stop, save the session, reset the accumulator.  A KeyError
\* raised by the save leaves the handler before the reset.
reset_and_save(resp) ==
    /\ HasRoom(resp)
    /\ timer_active' = FALSE
    /\ running' = FALSE
    /\ IF is_timer_mode
       THEN /\ save_timer_to_json(timer_duration - time_remaining, resp)
            /\ IF SaveOutcome(resp) = "raised"
               THEN UNCHANGED <<time_remaining, title, ticks>>
               ELSE /\ time_remaining' = timer_duration
                    /\ title' = ZeroTitle
                    /\ ticks' = 0
            /\ UNCHANGED time_elapsed
       ELSE /\ save_stopwatch_to_json(resp)
            /\ IF SaveOutcome(resp) = "raised"
               THEN UNCHANGED <<time_elapsed, title, ticks>>
               ELSE /\ time_elapsed' = 0
                    /\ title' = ZeroTitle
                    /\ ticks' = 0
            /\ UNCHANGED time_remaining
    /\ Did("reset_and_save", SaveOutcome(resp))
    /\ UNCHANGED <<is_timer_mode, timer_duration, start_at_startup,
                   settings_file, backups, now, report>>

\* A toggle without the check of self.running.
toggle_timer_mode_unguarded ==
    /\ is_timer_mode' = ~is_timer_mode
    /\ IF is_timer_mode'
       THEN /\ time_remaining' = timer_duration
            /\ UNCHANGED time_elapsed
       ELSE /\ time_elapsed' = 0
            /\ UNCHANGED time_remaining
    /\ title' = ZeroTitle
    /\ ticks' = 0
    /\ Did("toggle_timer_mode", "toggled")
    /\ UNCHANGED <<timer_duration, running, timer_active, start_at_startup,
                   data, settings_file, data_file, backups, now, report>>

\* toggle_timer_mode.  The handler's own check of self.running is what keeps
\* the mode fixed during a session.
toggle_timer_mode ==
    /\ IF running
       THEN /\ UNCHANGED <<is_timer_mode, time_remaining, time_elapsed, title, ticks>>
            /\ Did("toggle_timer_mode", "rejected")
       ELSE /\ is_timer_mode' = ~is_timer_mode
            /\ IF is_timer_mode'
               THEN /\ time_remaining' = timer_duration
                    /\ UNCHANGED time_elapsed
               ELSE /\ time_elapsed' = 0
                    /\ UNCHANGED time_remaining
            /\ title' = ZeroTitle
            /\ ticks' = 0
            /\ Did("toggle_timer_mode", "toggled")
    /\ UNCHANGED <<timer_duration, running, timer_active, start_at_startup,
                   data, settings_file, data_file, backups, now, report>>

\* A change of duration that turns away negative numbers only.
change_timer_duration_accepting_zero(resp) ==
    /\ IF Falsy(resp)
       THEN /\ UNCHANGED <<timer_duration, time_remaining, settings_file>>
            /\ Did("change_timer_duration", "cancelled")
       ELSE IF ~IsIntText(resp.text)
       THEN /\ UNCHANGED <<timer_duration, time_remaining, settings_file>>
            /\ Did("change_timer_duration", "invalid")
       ELSE IF ParseInt(resp.text) < 0
       THEN /\ UNCHANGED <<timer_duration, time_remaining, settings_file>>
            /\ Did("change_timer_duration", "rejected")
       ELSE /\ timer_duration' = ParseInt(resp.text) * SecondsPerMinute
            /\ time_remaining' = IF is_timer_mode THEN timer_duration' ELSE time_remaining
            /\ save_settings(start_at_startup, timer_duration')
            /\ Did("change_timer_duration", "changed")
    /\ UNCHANGED <<is_timer_mode, time_elapsed, running, timer_active,
                   start_at_startup, title, data, data_file, backups, now, report, ticks>>

\* change_timer_duration
change_timer_duration(resp) ==
    /\ IF Falsy(resp)
       THEN /\ UNCHANGED <<timer_duration, time_remaining, settings_file>>
            /\ Did("change_timer_duration", "cancelled")
       ELSE IF ~IsIntText(resp.text)
       THEN /\ UNCHANGED <<timer_duration, time_remaining, settings_file>>
            /\ Did("change_timer_duration", "invalid")
       ELSE IF ParseInt(resp.text) <= 0
       THEN /\ UNCHANGED <<timer_duration, time_remaining, settings_file>>
            /\ Did("change_timer_duration", "rejected")
       ELSE /\ timer_duration' = ParseInt(resp.text) * SecondsPerMinute
            /\ time_remaining' = IF is_timer_mode THEN timer_duration' ELSE time_remaining
            /\ save_settings(start_at_startup, timer_duration')
            /\ Did("change_timer_duration", "changed")
    /\ UNCHANGED <<is_timer_mode, time_elapsed, running, timer_active,
                   start_at_startup, title, data, data_file, backups, now, report, ticks>>

\* ------------------------------------------------------------------ store

\* An insertion without the membership check.
add_category_unchecked(resp) ==
    /\ IF Falsy(resp)
       THEN /\ UNCHANGED <<data, data_file>>
            /\ Did("add_category", "cancelled")
       ELSE /\ data' = DictInsert(data, resp.text)
            /\ save_data(data')
            /\ Did("add_category", IF Has(data, resp.text) THEN "exists" ELSE "added")
    /\ UNCHANGED <<is_timer_mode, timer_duration, time_remaining, time_elapsed,
                   running, timer_active, start_at_startup, title,
                   settings_file, backups, now, report, ticks>>

\* add_category
add_category(resp) ==
    /\ IF Falsy(resp)
       THEN /\ UNCHANGED <<data, data_file>>
            /\ Did("add_category", "cancelled")
       ELSE IF ~Has(data, resp.text)
       THEN /\ data' = DictInsert(data, resp.text)
            /\ save_data(data')
            /\ Did("add_category", "added")
       ELSE /\ UNCHANGED <<data, data_file>>
            /\ Did("add_category", "exists")
    /\ UNCHANGED <<is_timer_mode, timer_duration, time_remaining, time_elapsed,
                   running, timer_active, start_at_startup, title,
                   settings_file, backups, now, report, ticks>>

\* The backup file's name: data_backup_<timestamp>_<category>.json.
BackupName(stamp, category_name) == <<stamp, category_name>>

\* shutil.copy(self.data_path, backup_path): a file of that name is replaced.
CopyToBackup(file, stamp, category_name) ==
    {b \in backups : b.name # BackupName(stamp, category_name)}
    \cup {[name |-> BackupName(stamp, category_name), members |-> file.members]}

\* A deletion that copies the data file once the category is gone from it.
delete_category_backup_after(category_name) ==
    /\ IF Has(data, category_name)
       THEN /\ Cardinality(backups) < MaxBackups
            /\ data' = DictDelete(data, category_name)
            /\ save_data(data')
            /\ backups' = CopyToBackup(data_file', now, category_name)
            /\ Did("delete_category", "deleted")
       ELSE /\ UNCHANGED <<data, data_file, backups>>
            /\ Did("delete_category", "absent")
    /\ UNCHANGED <<is_timer_mode, timer_duration, time_remaining, time_elapsed,
                   running, timer_active, start_at_startup, title,
                   settings_file, now, report, ticks>>

\* delete_category
delete_category(category_name) ==
    /\ IF Has(data, category_name)
       THEN /\ Cardinality(backups) < MaxBackups
            /\ backups' = CopyToBackup(data_file, now, category_name)
            /\ data' = DictDelete(data, category_name)
            /\ save_data(data')
            /\ Did("delete_category", "deleted")
       ELSE /\ UNCHANGED <<data, data_file, backups>>
            /\ Did("delete_category", "absent")
    /\ UNCHANGED <<is_timer_mode, timer_duration, time_remaining, time_elapsed,
                   running, timer_active, start_at_startup, title,
                   settings_file, now, report, ticks>>

\* How a manual entry ends.
EntryOutcome(resp, dt) ==
    IF data.keys = <<>> THEN "no_categories"
    ELSE IF Falsy(resp) THEN "cancelled"
    ELSE IF ~Has(data, resp.text) THEN "invalid_category"
    ELSE IF ~get_date_time_input(dt).ok THEN get_date_time_input(dt).why
    ELSE "added"

\* What the date/time dialog returns, when add_entry gets as far as showing it.
DateTimePrompt(resp) ==
    IF data.keys # <<>> /\ ~Falsy(resp) /\ Has(data, resp.text)
    THEN DateTimeInputs
    ELSE {DateTime(FALSE, StartDay, "")}

\* add_entry
add_entry(resp, dt) ==
    /\ IF EntryOutcome(resp, dt) = "added"
       THEN /\ TotalEntries(data) < MaxEntries
            /\ data' = DictAppend(data, resp.text,
                                  Entry(get_date_time_input(dt).day,
                                        get_date_time_input(dt).minutes))
            /\ save_data(data')
       ELSE UNCHANGED <<data, data_file>>
    /\ Did("add_entry", EntryOutcome(resp, dt))
    /\ UNCHANGED <<is_timer_mode, timer_duration, time_remaining, time_elapsed,
                   running, timer_active, start_at_startup, title,
                   settings_file, backups, now, report, ticks>>

\* reload_data: load_data with the file present.
reload_data ==
    /\ data' = Load(data_file.members)
    /\ Did("reload_data", "ok")
    /\ UNCHANGED <<is_timer_mode, timer_duration, time_remaining, time_elapsed,
                   running, timer_active, start_at_startup, title,
                   settings_file, data_file, backups, now, report, ticks>>

\* show_statistics
show_statistics ==
    /\ IF data.keys = <<>>
       THEN /\ UNCHANGED report
            /\ Did("show_statistics", "no_categories")
       ELSE /\ report' = Statistics(data, now)
            /\ Did("show_statistics", "shown")
    /\ UNCHANGED <<is_timer_mode, timer_duration, time_remaining, time_elapsed,
                   running, timer_active, start_at_startup, title, data,
                   settings_file, data_file, backups, now, ticks>>

\* datetime.now(): the calendar day moves on.
midnight ==
    /\ now < StartDay + MaxDays
    /\ now' = now + 1
    /\ UNCHANGED <<is_timer_mode, timer_duration, time_remaining, time_elapsed,
                   running, timer_active, start_at_startup, title, data,
                   settings_file, data_file, backups, report, ticks, last>>

\* ---------------------------------------------------------- specifications

\* The session: the clock, the three primary actions, the mode and the
\* duration, committing into the categories an earlier run left.
Next ==
    \/ start_resume
    \/ pause
    \/ \E resp \in CategoryResponses : update_time(MaxTicks, resp)
    \/ \E resp \in CategoryResponses : reset_and_save(resp)
    \/ toggle_timer_mode
    \/ \E resp \in DurationResponses : change_timer_duration(resp)

Spec == Init /\ [][Next]_vars

\* The store: the category menu, manual entries and reload.
StoreNext ==
    \/ \E resp \in NameResponses : add_category(resp)
    \/ \E n \in Names \cup {Typo} : delete_category(n)
    \/ \E resp \in CategoryResponses : \E dt \in DateTimePrompt(resp) : add_entry(resp, dt)
    \/ reload_data

StoreSpec == StoreInit /\ [][StoreNext]_vars

\* The countdown to zero: the clock, and the user setting a one-minute timer,
\* with the ticks a one-minute timer needs.
TimerNext ==
    \/ start_resume
    \/ pause
    \/ \E resp \in CategoryResponses : update_time(MaxCountdown, resp)
    \/ \E resp \in {Ok("1"), Cancel} : change_timer_duration(resp)

TimerSpec == Init /\ [][TimerNext]_vars

\* The statistics of the data files of StatsData, on the start day and after.
StatsNext ==
    \/ show_statistics
    \/ midnight

StatsSpec == StatsInit /\ [][StatsNext]_vars

\* Every prompt dismissed: the user cancels each dialog or leaves it empty,
\* except to set a one-minute timer; with the ticks that timer needs.
CancelNext ==
    \/ start_resume
    \/ pause
    \/ \E resp \in {Cancel, Ok("")} : update_time(MaxCountdown, resp)
    \/ \E resp \in {Cancel, Ok("")} : reset_and_save(resp)
    \/ \E resp \in {Cancel, Ok(""), Ok("1")} : change_timer_duration(resp)
    \/ \E resp \in {Cancel, Ok("")} : add_category(resp)
    \/ \E resp \in {Cancel, Ok(""), Ok("a")} :
           add_entry(resp, DateTime(FALSE, StartDay, ""))

CancelSpec == StoreInit /\ [][CancelNext]_vars

\* The session before any category exists: both modes, the countdown with
\* the ticks a one-minute timer needs, the stopwatch with a few.
EmptyNext ==
    \/ start_resume
    \/ pause
    \/ toggle_timer_mode
    \/ \E resp \in CategoryResponses :
           update_time(IF is_timer_mode THEN MaxCountdown ELSE MaxTicks, resp)
    \/ \E resp \in CategoryResponses : reset_and_save(resp)

EmptySpec == EmptyInit /\ [][EmptyNext]_vars

\* Everything that changes the store: the category menu (deleting the
\* category the earlier run filled, or a name that is gone), manual entries,
\* reload, and "Reset and Save" committing the session.
PersistNext ==
    \/ \E resp \in NameResponses : add_category(resp)
    \/ \E n \in {"a", Typo} : delete_category(n)
    \/ \E resp \in CategoryResponses : \E dt \in DateTimePrompt(resp) : add_entry(resp, dt)
    \/ reload_data
    \/ \E resp \in CategoryResponses : reset_and_save(resp)

PersistSpec == StoreInit /\ [][PersistNext]_vars

\* The callback of rumps.Timer(self.update_time, 1).
Tick == \E resp \in CategoryResponses : update_time(MaxCountdown, resp)

\* An unattended countdown: the user sets the duration and starts while the
\* timer is stopped, and leaves the application alone while it runs.  A
\* session starts only while the bound on its ticks leaves it a tick.
LiveNext ==
    \/ ~running /\ \E resp \in {Ok("1"), Cancel} : change_timer_duration(resp)
    \/ ~running /\ ticks < MaxCountdown /\ start_resume
    \/ Tick

\* rumps.Timer calls update_time every second for as long as it is started:
\* a tick that stays enabled is delivered.
LiveSpec == Init /\ [][LiveNext]_vars /\ WF_vars(Tick)

\* ================================================================= claims

\* t is seconds/60 rounded to two decimals: a whole number of hundredths of
\* a minute, within half a hundredth of the exact quotient.
IsRound2(t, seconds) ==
    /\ t % 10 = 0
    /\ 60 * t - 1000 * seconds \in -300..300

LastOf(seq) == seq[Len(seq)]

\* d2 is d with exactly one entry appended to category c.
AppendedOne(d, d2, c) ==
    /\ d2.keys = d.keys
    /\ Len(d2.val[c]) = Len(d.val[c]) + 1
    /\ SubSeq(d2.val[c], 1, Len(d.val[c])) = d.val[c]
    /\ \A n \in KeySet(d) \ {c} : d2.val[n] = d.val[n]

\* The timer was armed with the full duration, has only counted since and
\* has not run out.
FreshlyArmed ==
    /\ is_timer_mode
    /\ timer_active
    /\ ticks < timer_duration
    /\ time_remaining = timer_duration - ticks

\* C1: a freshly armed timer of D seconds counts down one second per tick
\* and, on its D-th tick, with the collaborator selecting an existing
\* category c, stops, appends exactly one entry of round(D/60, 2) minutes to
\* c and is re-armed with D seconds.
C1_TimerAutoCommit ==
    [][\A c \in Names :
          (update_time(MaxCountdown, Ok(c)) /\ FreshlyArmed /\ Has(data, c))
          => IF ticks + 1 < timer_duration
             THEN /\ running' = running
                  /\ time_remaining' = timer_duration - (ticks + 1)
                  /\ data' = data
             ELSE /\ ticks + 1 = timer_duration
                  /\ running' = FALSE
                  /\ time_remaining' = timer_duration
                  /\ AppendedOne(data, data', c)
                  /\ LastOf(data'.val[c]).date = now
                  /\ IsRound2(LastOf(data'.val[c]).time, timer_duration)]_vars

\* C1 witness: a one-minute timer has just run out and committed one minute.
C1_Witness ==
    /\ last = [op |-> "update_time", outcome |-> "committed"]
    /\ ~running
    /\ timer_duration = SecondsPerMinute
    /\ time_remaining = timer_duration
    /\ \E c \in KeySet(data) :
          /\ data.val[c] # <<>>
          /\ LastOf(data.val[c]) = Entry(now, 1000)

\* C2: every entry in the store has minutes >= 0.
C2_NonNegativeMinutes ==
    \A c \in KeySet(data) : \A i \in 1..Len(data.val[c]) : data.val[c][i].time >= 0

\* The duration "Reset and Save" commits.
SessionSeconds == IF is_timer_mode THEN timer_duration - time_remaining ELSE time_elapsed

\* C3: reset_and_save with an existing category c selected appends to c
\* exactly one entry, stamped now, of round(d/60, 2) minutes, d being the
\* elapsed seconds of the mode at the moment of the call.
C3_ResetAndSaveAppends ==
    [][\A c \in Names :
          (last'.op = "reset_and_save" /\ Has(data, c) /\ reset_and_save(Ok(c)))
          => /\ AppendedOne(data, data', c)
             /\ LastOf(data'.val[c]).date = now
             /\ IsRound2(LastOf(data'.val[c]).time, SessionSeconds)]_vars

\* C3 witness: a session of some seconds has just been committed.
C3_Witness ==
    /\ last = [op |-> "reset_and_save", outcome |-> "committed"]
    /\ \E c \in KeySet(data) :
          /\ data.val[c] # <<>>
          /\ LastOf(data.val[c]).date = now
          /\ LastOf(data.val[c]).time > 0
          /\ LastOf(data.val[c]).time < 1000

\* The minutes of the entries dated from..to.
RECURSIVE WindowSum(_, _, _)
WindowSum(entries, from, to) ==
    IF entries = <<>> THEN 0
    ELSE LET e == entries[1]
         IN  (IF e.date # Malformed /\ from <= e.date /\ e.date <= to THEN e.time ELSE 0)
             + WindowSum(Tail(entries), from, to)

\* C4: the weekly total of a category counts exactly the entries dated
\* today - 6 days .. today.
C4_WeeklyWindow ==
    report.shown =>
        \A c \in KeySet(data) :
            report.per_category[c].weekly
                = WindowSum(data.val[c], report.today - 6, report.today)

PlainPrompts == {"add_category", "add_entry", "change_timer_duration"}

\* The handlers that prompt for the category of a session to save.
SavePrompts == {"reset_and_save", "update_time"}

\* What belongs to the user's session, settings and store.
persistent == <<is_timer_mode, timer_duration, start_at_startup, settings_file, data, data_file>>

\* C6 as stated: after a dismissed prompt of add category, manual entry,
\* change timer duration, resetAndSave or the timer auto-commit, the session
\* state, the settings and the category store are what they were before.
C6_CancelChangesNothing ==
    [][(last'.op \in PlainPrompts \cup SavePrompts /\ last'.outcome = "cancelled")
       => UNCHANGED <<session, persistent>>]_vars

\* C6 amended: a dismissed prompt of add category, manual entry or change
\* timer duration changes nothing; a dismissed category prompt of
\* resetAndSave or of the timer auto-commit leaves the store, the settings,
\* the mode and the duration unchanged, but the session is stopped and its
\* accumulator reset.
C6_CancelAmended ==
    [][/\ (last'.op \in PlainPrompts /\ last'.outcome = "cancelled")
          => UNCHANGED <<session, persistent>>
       /\ (last'.op \in SavePrompts /\ last'.outcome = "cancelled")
          => /\ UNCHANGED persistent
             /\ running' = FALSE
             /\ timer_active' = FALSE
             /\ IF is_timer_mode
                THEN time_remaining' = timer_duration /\ time_elapsed' = time_elapsed
                ELSE time_elapsed' = 0 /\ time_remaining' = time_remaining
             /\ title' = "0:00:00"]_vars

\* C6 witness: the countdown of a one-minute timer ran out and the category
\* prompt was dismissed.
C6_Witness ==
    /\ last = [op |-> "update_time", outcome |-> "cancelled"]
    /\ timer_duration = SecondsPerMinute
    /\ time_remaining = timer_duration
    /\ ~running

\* C7: a manual entry with minutes <= 0, or with a category name that is no
\* key of the store, leaves the in-memory and the persisted store unchanged;
\* a successful one appends exactly one entry with the supplied date and
\* minutes to the named category, persists it, and leaves the session alone.
C7_ManualEntry ==
    [][last'.op = "add_entry" =>
       \A resp \in CategoryResponses : \A dt \in DateTimePrompt(resp) :
          (last'.outcome = EntryOutcome(resp, dt) /\ add_entry(resp, dt)) =>
            LET f == ParseFloat(dt.time_str)
                named == resp.ok /\ resp.text # ""
            IN  /\ (named /\ ~Has(data, resp.text)) => UNCHANGED <<data, data_file>>
                /\ (dt.ok /\ f.ok /\ f.val <= 0) => UNCHANGED <<data, data_file>>
                /\ (named /\ Has(data, resp.text) /\ dt.ok /\ dt.day # Malformed
                        /\ f.ok /\ f.val > 0)
                   => /\ AppendedOne(data, data', resp.text)
                      /\ LastOf(data'.val[resp.text]) = Entry(dt.day, f.val)
                      /\ Load(data_file'.members) = data'
                      /\ UNCHANGED session]_vars

\* C7 witness: minutes <= 0 have just been rejected, in a store that holds
\* an earlier manual entry.
C7_Witness ==
    /\ last = [op |-> "add_entry", outcome |-> "nonpositive_minutes"]
    /\ \E c \in KeySet(data) : \E i \in 1..Len(data.val[c]) :
          data.val[c][i] = Entry(StartDay - WeekDays, 1234)

\* No name is a key twice.
UniqueKeys(d) == \A i, j \in 1..Len(d.keys) : d.keys[i] = d.keys[j] => i = j

\* C8: add_category with a name that is already a key is rejected and leaves
\* the store, its entry lists included, and the data file unchanged; no name
\* is ever a key twice.
C8_AddCategoryDuplicate ==
    [][/\ \A n \in Names :
            (add_category(Ok(n)) /\ Has(data, n))
            => /\ UNCHANGED <<data, data_file>>
               /\ last'.outcome = "exists"
       /\ UniqueKeys(data')
       /\ UniqueKeys(Load(data_file'.members))]_vars

\* C8 witness: a category holding entries was added a second time.
C8_Witness ==
    /\ last = [op |-> "add_category", outcome |-> "exists"]
    /\ \E c \in KeySet(data) : data.val[c] # <<>>

\* The members of a data file named name.
MembersNamed(members, name) ==
    {i \in 1..Len(members) : members[i].name = name}

\* C9: deleting an existing category leaves a backup equal to the data file
\* as it was before the deletion, holding the deleted category with all its
\* entries, and the category is gone from the live and the persisted store.
C9_DeleteBackup ==
    [][\A n \in Names \cup {Typo} :
          (delete_category(n) /\ Has(data, n))
          => /\ \E b \in backups' :
                   /\ b.members = data_file.members
                   /\ \E i \in MembersNamed(b.members, n) : b.members[i].entries = data.val[n]
             /\ ~Has(data', n)
             /\ MembersNamed(data_file'.members, n) = {}]_vars

\* C9 witness: a category with entries has been deleted; it is in a backup
\* and in neither the live nor the persisted store.
C9_Witness ==
    /\ last = [op |-> "delete_category", outcome |-> "deleted"]
    /\ \E b \in backups : \E i \in 1..Len(b.members) :
          /\ b.members[i].entries # <<>>
          /\ ~Has(data, b.members[i].name)
          /\ MembersNamed(data_file.members, b.members[i].name) = {}

\* C10: delete_category of a name that is no key changes neither the
\* in-memory store, nor the data file, nor the backups; of a key, it removes
\* that key only, every other category keeping its place and its entries.
C10_DeleteFrame ==
    [][\A n \in Names \cup {Typo} :
          delete_category(n)
          => IF ~Has(data, n)
             THEN UNCHANGED <<data, data_file, backups>>
             ELSE /\ KeySet(data') = KeySet(data) \ {n}
                  /\ Len(data'.keys) = Len(data.keys) - 1
                  /\ \A m \in KeySet(data') : data'.val[m] = data.val[m]
                  /\ \A i, j \in 1..Len(data.keys) :
                        (i < j /\ data.keys[i] # n /\ data.keys[j] # n)
                        => \E k, l \in 1..Len(data'.keys) :
                              k < l /\ data'.keys[k] = data.keys[i]
                                    /\ data'.keys[l] = data.keys[j]
                  /\ Load(data_file'.members) = data']_vars

\* C10 witness: a category was deleted and another, holding entries, is
\* still there.
C10_Witness ==
    /\ last = [op |-> "delete_category", outcome |-> "deleted"]
    /\ \E c \in KeySet(data) : data.val[c] # <<>>

\* C11: toggle_timer_mode while running changes nothing, so no step taken
\* while running changes the mode; when not running it flips the mode and
\* resets the accumulator of the mode entered, leaving the other one, the
\* duration, the settings and the store alone.
C11_ToggleMode ==
    [][/\ running => is_timer_mode' = is_timer_mode
       /\ (last'.op = "toggle_timer_mode" /\ running)
          => UNCHANGED <<session, persistent>>
       /\ (last'.op = "toggle_timer_mode" /\ ~running)
          => /\ is_timer_mode' = ~is_timer_mode
             /\ IF is_timer_mode'
                THEN time_remaining' = timer_duration /\ time_elapsed' = time_elapsed
                ELSE time_elapsed' = 0 /\ time_remaining' = time_remaining
             /\ running' = FALSE
             /\ UNCHANGED <<timer_duration, start_at_startup, settings_file, data, data_file>>]_vars

\* C11 witness: a toggle was rejected in the middle of a stopwatch session.
C11_Witness ==
    /\ last = [op |-> "toggle_timer_mode", outcome |-> "rejected"]
    /\ running
    /\ ~is_timer_mode
    /\ time_elapsed > 0

\* C12: start_resume while running changes nothing; otherwise it sets
\* running and starts the clock, and the mode, both accumulators, the
\* display, the settings and the store stay as they were.
C12_StartResume ==
    [][last'.op = "start_resume"
       => /\ running' = TRUE
          /\ timer_active' = TRUE
          /\ running => UNCHANGED <<session, persistent>>
          /\ UNCHANGED <<is_timer_mode, timer_duration, time_remaining, time_elapsed,
                         title, persistent>>]_vars

\* C12 witness: a paused countdown was resumed from where it stood.
C12_Witness ==
    /\ last = [op |-> "start_resume", outcome |-> "started"]
    /\ running
    /\ is_timer_mode
    /\ ticks > 0
    /\ time_remaining = timer_duration - ticks

\* C13: pause when not running changes nothing; otherwise it clears running
\* and stops the clock, leaving the accumulators, the mode and the store
\* alone.  While running is false the clock is stopped, and the accumulators
\* change only by a reset, a mode switch or a change of duration.
C13_Pause ==
    [][/\ last'.op = "pause"
          => /\ running' = FALSE
             /\ timer_active' = FALSE
             /\ ~running => UNCHANGED <<session, persistent>>
             /\ UNCHANGED <<is_timer_mode, timer_duration, time_remaining, time_elapsed,
                            title, persistent>>
       /\ ~running' => ~timer_active'
       /\ (~running /\ <<time_remaining, time_elapsed>>' # <<time_remaining, time_elapsed>>)
          => last'.op \in {"reset_and_save", "toggle_timer_mode", "change_timer_duration"}]_vars

\* C13 witness: a stopwatch session was paused with seconds on the clock.
C13_Witness ==
    /\ last = [op |-> "pause", outcome |-> "paused"]
    /\ ~running
    /\ ~is_timer_mode
    /\ time_elapsed > 0

\* The tick on which the countdown runs out.
LastTick == is_timer_mode /\ timer_active /\ time_remaining <= 1

\* C14: with no category in the store, reset_and_save and the timer
\* auto-commit end at the "no categories" alert, whatever the category
\* dialog would have returned, and neither the in-memory store nor the data
\* file changes.
C14_NoCategories ==
    [][\A resp \in CategoryResponses :
          (/\ data.keys = <<>>
           /\ \/ last'.op = "reset_and_save" /\ reset_and_save(resp)
              \/ last'.op = "update_time" /\ LastTick /\ update_time(MaxCountdown, resp))
          => /\ last'.outcome = "no_categories"
             /\ UNCHANGED <<data, data_file>>]_vars

\* C14 witness: a one-minute countdown ran out on an empty store.
C14_Witness ==
    /\ last = [op |-> "update_time", outcome |-> "no_categories"]
    /\ data.keys = <<>>
    /\ data_file = DataFile(<<>>)
    /\ time_remaining = SecondsPerMinute

\* C15: the data file always holds the in-memory store: after every add
\* category, delete category, manual entry, committed session and reload,
\* the document on disk is the dump of self.data.
C15_Persisted ==
    /\ data_file.exists
    /\ data_file.members = Dump(data)

\* C15 witness: a session was committed into a store that the category menu
\* had changed before.
C15_Witness ==
    /\ last = [op |-> "reset_and_save", outcome |-> "committed"]
    /\ backups # {}
    /\ \E c \in KeySet(data) : data.val[c] # <<>> /\ LastOf(data.val[c]).date = now

RECURSIVE SumOf(_, _)
SumOf(f, S) ==
    IF S = {} THEN 0
    ELSE LET x == CHOOSE x \in S : TRUE
         IN  f[x] + SumOf(f, S \ {x})

\* The minutes of the entries at the positions S.
MinutesAt(entries, S) == SumOf([i \in S |-> entries[i].time], S)

\* The positions of the entries whose date parses.
Parsed(entries) == {i \in 1..Len(entries) : entries[i].date # Malformed}

\* C17 as stated: a category's lifetime total is the sum of the minutes of
\* all its entries, unconditionally, and the overall lifetime total is the
\* sum over the categories.
C17_LifetimeAllEntries ==
    report.shown =>
        /\ \A c \in KeySet(data) :
              report.per_category[c].lifetime
                  = MinutesAt(data.val[c], 1..Len(data.val[c]))
        /\ report.overall.lifetime
              = SumOf([c \in KeySet(data) |-> report.per_category[c].lifetime], KeySet(data))

\* C17 amended: a category's lifetime total is the sum of the minutes of
\* all its entries whose date parses, whatever that date (past, today or
\* future); an entry whose date does not parse adds nothing; the overall
\* lifetime total is the sum over the categories.
C17_LifetimeParsedEntries ==
    report.shown =>
        /\ \A c \in KeySet(data) :
              report.per_category[c].lifetime = MinutesAt(data.val[c], Parsed(data.val[c]))
        /\ report.overall.lifetime
              = SumOf([c \in KeySet(data) |-> report.per_category[c].lifetime], KeySet(data))

\* C17 witness: statistics of a store whose first category holds an entry
\* older than a week and one in the future, and whose second holds one.
C17_Witness ==
    /\ report.shown
    /\ Len(data.keys) = 2
    /\ \E c \in KeySet(data) :
          /\ Len(data.val[c]) = 2
          /\ data.val[c][1].date = report.today - WeekDays - 1
          /\ data.val[c][2].date = report.today + 1
          /\ report.per_category[c].lifetime = data.val[c][1].time + data.val[c][2].time
          /\ report.overall.lifetime > report.per_category[c].lifetime

\* C18: a category's daily total is the sum of the minutes of exactly the
\* entries dated on the day of the report, and the overall daily total is
\* the sum over the categories.
C18_DailyToday ==
    report.shown =>
        /\ \A c \in KeySet(data) :
              report.per_category[c].daily
                  = MinutesAt(data.val[c],
                              {i \in 1..Len(data.val[c]) : data.val[c][i].date = report.today})
        /\ report.overall.daily
              = SumOf([c \in KeySet(data) |-> report.per_category[c].daily], KeySet(data))

\* C18 witness: statistics on the day after the start, of a category with
\* an entry of that day and one of the day before.
C18_Witness ==
    /\ report.shown
    /\ report.today = StartDay + 1
    /\ \E c \in KeySet(data) :
          /\ Len(data.val[c]) = 2
          /\ data.val[c][1].date = report.today - 1
          /\ data.val[c][2].date = report.today
          /\ report.per_category[c].daily = data.val[c][2].time

\* The entries whose date parses, in their order.
WithoutMalformed(entries) == SelectSeq(entries, LAMBDA e : e.date # Malformed)

\* C19: entries whose date does not parse do not stop the statistics, and
\* the report is the one of the store without them: daily, weekly and
\* lifetime totals of every category, and overall.
C19_MalformedSkipped ==
    /\ (last.op = "show_statistics" /\ data.keys # <<>>) => report.shown
    /\ report.shown =>
          LET clean == [keys |-> data.keys,
                        val |-> [c \in KeySet(data) |-> WithoutMalformed(data.val[c])]]
          IN  /\ \A c \in KeySet(data) :
                    report.per_category[c] = CategoryTotals(clean.val[c], report.today)
              /\ report.overall = OverallTotals(clean, Len(clean.keys), report.today)

\* C19 witness: statistics of a category holding an entry whose date does
\* not parse and an entry of today.
C19_Witness ==
    /\ report.shown
    /\ \E c \in KeySet(data) :
          /\ Len(data.val[c]) = 2
          /\ data.val[c][1].date = Malformed
          /\ data.val[c][2].date = report.today
          /\ report.per_category[c] = Totals(data.val[c][2].time, data.val[c][2].time,
                                             data.val[c][2].time)

Digits == <<"0", "1", "2", "3", "4", "5", "6", "7", "8", "9">>

\* n < 100 written with two digits.
TwoDigits(n) == Digits[(n \div 10) + 1] \o Digits[(n % 10) + 1]

\* H:MM:SS of s seconds.
Clock(s) ==
    ToString(s \div 3600) \o ":" \o TwoDigits((s % 3600) \div 60) \o ":" \o TwoDigits(s % 60)

\* Seconds around every carry of the display.
FormatSamples ==
    {0, 1, 9, 10, 59, 60, 61, 599, 600, 3599, 3600, 3601, 3661, 35999, 36000, 86399, 360000}

\* C20: format_time(s) is H:MM:SS, hours unpadded, minutes and seconds with
\* two digits; format_time(3661) is "1:01:01"; and after a tick that does
\* not complete the timer the title is format_time of the accumulator.
C20_FormatTime ==
    /\ format_time(3661) = "1:01:01"
    /\ \A s \in FormatSamples : format_time(s) = Clock(s)
    /\ last = [op |-> "update_time", outcome |-> "tick"]
       => title = Clock(IF is_timer_mode THEN time_remaining ELSE time_elapsed)

\* C20 witness: the first tick of the default timer.
C20_Witness ==
    /\ last = [op |-> "update_time", outcome |-> "tick"]
    /\ is_timer_mode
    /\ time_remaining = DefaultMinutes * SecondsPerMinute - 1
    /\ title = "1:29:59"

\* s is the beginning of t.
IsPrefix(s, t) == Len(s) <= Len(t) /\ SubSeq(t, 1, Len(s)) = s

\* C21: across every step but a reload, every category either is the one
\* a delete_category removes or is still there with its entries of before,
\* unchanged and in their order, at the head of its list.
C21_AppendOnly ==
    [][last'.op # "reload_data"
       => \A c \in KeySet(data) :
             \/ last'.op = "delete_category" /\ ~Has(data', c)
             \/ Has(data', c) /\ IsPrefix(data.val[c], data'.val[c])]_vars

\* C21 witness: a manual entry was appended behind an older entry.
C21_Witness ==
    /\ last = [op |-> "add_entry", outcome |-> "added"]
    /\ \E c \in KeySet(data) :
          /\ Len(data.val[c]) = 2
          /\ data.val[c][1] = OldEntry
          /\ data.val[c][2] # OldEntry

\* C22: every entry's minutes are a whole number of hundredths of a minute,
\* whichever handler created the entry.
C22_TwoDecimals ==
    \A c \in KeySet(data) : \A i \in 1..Len(data.val[c]) : data.val[c][i].time % 10 = 0

\* C23: reset_and_save with nothing counted and an existing category
\* supplied appends an entry of 0 minutes to it.
C23_ZeroElapsedSaved ==
    [][\A c \in Names :
          (/\ last'.op = "reset_and_save"
           /\ SessionSeconds = 0
           /\ Has(data, c)
           /\ reset_and_save(Ok(c)))
          => /\ last'.outcome = "committed"
             /\ AppendedOne(data, data', c)
             /\ LastOf(data'.val[c]) = Entry(now, 0)]_vars

\* C23 witness: "Reset and Save" on a stopwatch that never ran filed a
\* session of 0 minutes.
C23_Witness ==
    /\ last = [op |-> "reset_and_save", outcome |-> "committed"]
    /\ ~is_timer_mode
    /\ \E c \in KeySet(data) : data.val[c] # <<>> /\ LastOf(data.val[c]) = Entry(now, 0)

\* The whole minutes m > 0 that resp spells, if any.
PositiveMinutes(resp) == {m \in TypedMinutes : m > 0 /\ resp.ok /\ resp.text = ToString(m)}

\* timer_duration is positive, and is what loading the settings file gives
\* whenever there is one.
DurationSound ==
    /\ timer_duration > 0
    /\ settings_file.exists
       => settings_file.timer_minutes * SecondsPerMinute = timer_duration

\* C24: timer_duration is positive before and after every step, and is what
\* loading the settings file gives whenever there is one; a change of
\* duration to m > 0 whole minutes sets it to 60*m and saves it; every other
\* input leaves timer_duration, time_remaining and the settings file
\* unchanged.
C24_TimerDuration ==
    [][/\ DurationSound
       /\ DurationSound'
       /\ last'.op = "change_timer_duration" =>
          \A resp \in DurationResponses :
             change_timer_duration(resp)
             => IF PositiveMinutes(resp) = {}
                THEN UNCHANGED <<timer_duration, time_remaining, settings_file>>
                ELSE /\ \A m \in PositiveMinutes(resp) : timer_duration' = 60 * m
                     /\ settings_file'.exists]_vars

\* C24 witness: after a change to two minutes was saved, a duration of zero
\* or less was turned away.
C24_Witness ==
    /\ last = [op |-> "change_timer_duration", outcome |-> "rejected"]
    /\ settings_file.exists
    /\ settings_file.timer_minutes = 2
    /\ timer_duration = 2 * SecondsPerMinute

\* How the tick that ends a countdown can end.
CommitOutcomes == {"committed", "no_categories", "cancelled", "raised"}

\* C25: after the tick that brings time_remaining to 0, running is false and
\* time_remaining is timer_duration again, whether a category was committed,
\* the store had no categories, the prompt was dismissed or it returned a
\* name that is no category.
C25_RearmedWhateverOutcome ==
    (last.op = "update_time" /\ last.outcome \in CommitOutcomes)
    => /\ ~running
       /\ time_remaining = timer_duration

\* C27: 0 <= time_remaining <= timer_duration in every state.
C27_RemainingInRange ==
    /\ 0 <= time_remaining
    /\ time_remaining <= timer_duration

\* The ticks counted by the session that the step commits: the tick that ends
\* a countdown is itself counted.
CountedTicks == IF last'.op = "update_time" THEN ticks + 1 ELSE ticks

\* C28: every entry appended by reset_and_save or by the timer auto-commit
\* holds round(n/60, 2) minutes, n being the number of ticks delivered since
\* the accumulator was last reset (startup, previous reset or commit, mode
\* switch), over any interleaving of start, pause, tick and change of timer
\* duration.
C28_CommittedIsCounted ==
    [][(last'.op \in SavePrompts /\ last'.outcome = "committed")
       => \E c \in KeySet(data) :
             /\ AppendedOne(data, data', c)
             /\ IsRound2(LastOf(data'.val[c]).time, CountedTicks)]_vars

\* A running countdown that the bound on the ticks of a session lets run out.
CanRunOut ==
    /\ is_timer_mode
    /\ running
    /\ 0 < time_remaining
    /\ ticks + time_remaining <= MaxCountdown

\* C26: in timer mode, once running is true, if ticks keep being delivered
\* and the user does nothing else, then eventually running is false and
\* time_remaining equals timer_duration again.
C26_EventuallyRearmed == CanRunOut ~> (~running /\ time_remaining = timer_duration)

\* C29: reset_and_save and the timer auto-commit leave the category names as
\* they are and append at most one entry, to a category that already exists,
\* whatever the category prompt returns, a typed name that is no category
\* included.
C29_CommitCreatesNoCategory ==
    [][last'.op \in SavePrompts
       => /\ data'.keys = data.keys
          /\ Load(data_file'.members).keys = data.keys
          /\ \/ data' = data
             \/ \E c \in KeySet(data) : AppendedOne(data, data', c)]_vars

\* C29 witness: the prompt returned a name that is no category, and the
\* store has no such category.
C29_Witness ==
    /\ last = [op |-> "reset_and_save", outcome |-> "raised"]
    /\ data.keys # <<>>
    /\ ~Has(data, Typo)
    /\ Load(data_file.members) = data

Fields == {"daily", "weekly", "lifetime"}

\* daily <= weekly <= lifetime
Ordered(t) == t.daily <= t.weekly /\ t.weekly <= t.lifetime

\* No entry of the store holds negative minutes.
NonNegative(d) == \A c \in KeySet(d) : \A i \in 1..Len(d.val[c]) : d.val[c][i].time >= 0

\* C30: in every statistics report each overall total (daily, weekly,
\* lifetime) is the sum of the per-category totals of the same kind, and when
\* no entry holds negative minutes, each category's totals and the overall
\* totals satisfy daily <= weekly <= lifetime.
C30_TotalsAddUp ==
    report.shown =>
        /\ DOMAIN report.per_category = KeySet(data)
        /\ \A f \in Fields :
              report.overall[f]
                  = SumOf([c \in KeySet(data) |-> report.per_category[c][f]], KeySet(data))
        /\ NonNegative(data)
           => /\ Ordered(report.overall)
              /\ \A c \in KeySet(data) : Ordered(report.per_category[c])

\* C30 witness: a report over two categories that both count, with entries
\* of the day, of the week and from before it: the three overall totals
\* differ.
C30_Witness ==
    /\ report.shown
    /\ NonNegative(data)
    /\ \A c \in KeySet(data) : report.per_category[c].lifetime > 0
    /\ Len(data.keys) = 2
    /\ 0 < report.overall.daily
    /\ report.overall.daily < report.overall.weekly
    /\ report.overall.weekly < report.overall.lifetime

====
